---------------------------- MODULE Spec2Model ----------------------------
(***************************************************************************)
(* A model of the mymaintlog record store (src/utils/data_handler.py).     *)
(*                                                                         *)
(* Python values are modelled as follows.  A str is the tuple of its       *)
(* characters, each a one-character TLA+ string; None is the one-element   *)
(* tuple <<"None">>, True and False are <<"True">> and <<"False">> (no str *)
(* is equal to any of them, since their single element is not a            *)
(* character).  Dates and timestamps are day numbers.  A table is the set  *)
(* of its rows; a row is a record with one field per column of _SCHEMA.    *)
(***************************************************************************)
EXTENDS Integers, Sequences, FiniteSets, TLC

\* ------------------------------------------------------------------ bounds

\* rows in the store, all tables together
MaxRows == 2
\* largest sequence number an add allocates
MaxNum == 3
\* the latest reading of the clock (datetime.now()); it starts at 0
MaxClock == 1

\* ------------------------------------------------------------ Python values

None == <<"None">>
PyTrue == <<"True">>
PyFalse == <<"False">>

\* bool(v) is False: None, False and the empty str
Falsy(v) == v \in {None, PyFalse, <<>>}

\* the characters str.strip() removes (those that occur in the inputs)
Whitespace == {" ", "\t", "\n"}

UpperLetters ==
  <<"A","B","C","D","E","F","G","H","I","J","K","L","M",
    "N","O","P","Q","R","S","T","U","V","W","X","Y","Z">>

LowerLetters ==
  <<"a","b","c","d","e","f","g","h","i","j","k","l","m",
    "n","o","p","q","r","s","t","u","v","w","x","y","z">>

IndexIn(c, letters) ==
  IF \E i \in 1..Len(letters) : letters[i] = c
  THEN CHOOSE i \in 1..Len(letters) : letters[i] = c
  ELSE 0

\* str.lower()
Lower(s) ==
  [i \in 1..Len(s) |->
     IF IndexIn(s[i], UpperLetters) > 0
     THEN LowerLetters[IndexIn(s[i], UpperLetters)] ELSE s[i]]

\* str.upper()
Upper(s) ==
  [i \in 1..Len(s) |->
     IF IndexIn(s[i], LowerLetters) > 0
     THEN UpperLetters[IndexIn(s[i], LowerLetters)] ELSE s[i]]

\* str.strip()
Strip(s) ==
  LET keep == {i \in 1..Len(s) : s[i] \notin Whitespace}
  IN  IF keep = {} THEN <<>>
      ELSE LET first == CHOOSE i \in keep : \A j \in keep : i <= j
               last == CHOOSE i \in keep : \A j \in keep : j <= i
           IN  SubSeq(s, first, last)

\* str(value)
Str(value) == IF value = None THEN <<"N","o","n","e">> ELSE value

\* s[:n]
Take(s, n) == SubSeq(s, 1, IF Len(s) < n THEN Len(s) ELSE n)

\* --------------------------------------------------- object-type normalizer

Vehicle == <<"V","e","h","i","c","l","e">>
Facility == <<"F","a","c","i","l","i","t","y">>
Other == <<"O","t","h","e","r">>

OBJECT_TYPES == <<Vehicle, Facility, Other>>

\* a table whose values are not the values of their own lower-case keys
CanonSwapped ==
  (<<"v","e","h","i","c","l","e">> :> Vehicle) @@
  (<<"v","e","h","i","c","l","e","s">> :> Vehicle) @@
  (<<"v","e","h">> :> Vehicle) @@
  (<<"f","a","c","i","l","i","t","y">> :> Facility) @@
  (<<"f","a","c","i","l","i","t","i","e","s">> :> Facility) @@
  (<<"f","a","c">> :> Facility) @@
  (<<"o","t","h","e","r">> :> <<"E","q","u","i","p","m","e","n","t">>) @@
  (<<"e","q","u","i","p","m","e","n","t">> :> Other)

OBJECT_TYPE_CANON ==
  (<<"v","e","h","i","c","l","e">> :> Vehicle) @@
  (<<"v","e","h","i","c","l","e","s">> :> Vehicle) @@
  (<<"v","e","h">> :> Vehicle) @@
  (<<"f","a","c","i","l","i","t","y">> :> Facility) @@
  (<<"f","a","c","i","l","i","t","i","e","s">> :> Facility) @@
  (<<"f","a","c">> :> Facility) @@
  (<<"o","t","h","e","r">> :> Other) @@
  (<<"e","q","u","i","p","m","e","n","t">> :> Other)

\* dict.get(key, default)
DictGet(d, key, default) == IF key \in DOMAIN d THEN d[key] ELSE default

\* a normalizer that does not strip the value
NormalizeNoStrip(value) ==
  IF value = None THEN value
  ELSE DictGet(OBJECT_TYPE_CANON, Lower(Str(value)), Str(value))

normalize_object_type(value) ==
  IF value = None THEN value
  ELSE LET v == Strip(Str(value))
       IN  DictGet(OBJECT_TYPE_CANON, Lower(v), v)

\* ------------------------------------------------------------ id generation

Digits == <<"0","1","2","3","4","5","6","7","8","9">>

\* the value of a decimal digit, -1 for any other character
DigitVal(c) == IndexIn(c, Digits) - 1

RECURSIVE Decimal(_)
\* str(n) for n >= 0
Decimal(n) ==
  IF n < 10 THEN <<Digits[n + 1]>>
  ELSE Decimal(n \div 10) \o <<Digits[(n % 10) + 1]>>

\* f"{n:0{width}d}"
ZeroPad(n, width) ==
  LET d == Decimal(n)
  IN  IF Len(d) >= width THEN d ELSE [i \in 1..(width - Len(d)) |-> "0"] \o d

\* f"{prefix}-{n:0{width}d}"
FormatId(prefix, n, width) == prefix \o <<"-">> \o ZeroPad(n, width)

\* SQL SUBSTR(s, start): from the start-th character to the end
Substr(s, start) == SubSeq(s, start, Len(s))

RECURSIVE CastFrom(_, _, _)
CastFrom(s, i, acc) ==
  IF i > Len(s) \/ DigitVal(s[i]) < 0 THEN acc
  ELSE CastFrom(s, i + 1, acc * 10 + DigitVal(s[i]))

\* SQL CAST(s AS INTEGER) of a text without sign: the value of its longest
\* prefix of digits, 0 when there is none
CastInteger(s) == CastFrom(s, 1, 0)

\* SELECT MAX(CAST(SUBSTR(pk, 5) AS INTEGER)) over rows: the set holding the
\* maximum, empty for SQL NULL (no row)
SelectMax(rows, pk) ==
  LET nums == {CastInteger(Substr(r[pk], 5)) : r \in rows}
  IN  {n \in nums : \A m \in nums : m <= n}

\* (row[0] or 0) + 1
NextNumber(maxes) == (IF maxes = {} THEN 0 ELSE CHOOSE n \in maxes : TRUE) + 1

\* ------------------------------------------------------------------ schema

Kinds == {"objects", "services", "reminders", "reports", "fault_reports"}

\* the PRIMARY KEY column of each table of _SCHEMA
PK ==
  [objects |-> "object_id", services |-> "service_id",
   reminders |-> "reminder_id", reports |-> "report_id",
   fault_reports |-> "fault_id"]

\* the NOT NULL columns of each table of _SCHEMA
NOT_NULL ==
  [objects |-> {"object_type", "name"}, services |-> {}, reminders |-> {},
   reports |-> {}, fault_reports |-> {}]

TABLE_COLUMNS ==
  [objects |->
     {"object_id", "object_type", "name", "description",
      "status", "created_date", "last_updated", "user_email"},
   services |->
     {"service_id", "object_id", "object_type", "service_name",
      "description", "interval_days", "last_service_date",
      "next_service_date", "status", "notes", "created_date",
      "expected_meter_reading", "meter_unit", "user_email"},
   reminders |->
     {"reminder_id", "service_id", "object_id", "object_type",
      "reminder_date", "status", "notes", "created_date",
      "user_email", "email_notification", "notification_time", "email_sent"},
   reports |->
     {"report_id", "object_id", "object_type", "report_type",
      "title", "description", "completion_date", "notes",
      "created_date", "actual_meter_reading", "meter_unit", "user_email"},
   fault_reports |->
     {"fault_id", "object_id", "object_type", "observation_date",
      "actual_meter_reading", "meter_unit", "description",
      "photo_paths", "created_date", "user_email"}]

\* the id prefix and the zero-padding width of the kinds whose prefix is fixed
ID_PREFIX ==
  [services |-> <<"S","V","C">>, reminders |-> <<"R","E","M">>,
   reports |-> <<"R","E","P">>, fault_reports |-> <<"F","L","T">>]

IdWidth(kind) == IF kind = "objects" THEN 4 ELSE 5

\* ------------------------------------------------------------------- state

VARIABLES
  store,        \* the five entity tables: kind -> set of rows
  meter_units,  \* the meter_units table: set of units
  now,          \* the clock: datetime.now(), in days
  ret,          \* the store call that has just returned: its operation,
                \* arguments and result ("none" between two calls)
  pc,           \* overlapping adds: each client's position in add_*
  pending,      \* overlapping adds: the row a client computed and will insert
  result,       \* overlapping adds: what each client's add returned
  prev,         \* what the call before the one in ret did, when it was an
                \* add that returned an id or a delete that removed a row:
                \* [op, kind, id]; NoPrev otherwise (history)
  photos,       \* the files in data/fault_photos: set of paths
  config,       \* email_config.yaml: "missing", "disabled" or "enabled"
  hist,         \* what the polls so far did with each reminder (history)
  txn           \* the open transaction of delete_user_data, NoTxn if none

vars ==
  <<store, meter_units, now, ret, pc, pending, result, prev, photos, config,
    hist, txn>>

\* ------------------------------------------------------------------ inputs

Users == {<<"a">>, <<"b">>}
Owners == Users \cup {None}

\* raw category strings: a padded alias in mixed case, and two unrecognized
\* strings that differ in case only (one of them padded)
PaddedVeh == <<" ","V","e","h","\t">>
Boat == <<"B","o","a","t">>
PaddedBoat == <<"b","o","a","t"," ">>

Name == <<"n">>
NewName == <<"n","e","w">>
Active == <<"A","c","t","i","v","e">>
Scheduled == <<"S","c","h","e","d","u","l","e","d">>
Pending == <<"P","e","n","d","i","n","g">>
DefaultTime == <<"0","9",":","0","0">>
Km == <<"k","m">>
KWh == <<"k","W","h">>

ObjRefs == {FormatId(<<"V","E","H">>, 1, IdWidth("objects"))}
SvcRefs == {FormatId(ID_PREFIX["services"], 1, IdWidth("services"))}

\* ----------------------------------------------------------- store helpers

Ids(kind, rows) == {r[PK[kind]] : r \in rows}

TotalRows(s) ==
  Cardinality(s["objects"]) + Cardinality(s["services"])
  + Cardinality(s["reminders"]) + Cardinality(s["reports"])
  + Cardinality(s["fault_reports"])

\* SQL "column = ?": a NULL on either side matches nothing
SqlEq(x, y) == x # None /\ y # None /\ x = y

\* a schema whose id columns are not declared PRIMARY KEY
ConstraintsNoPrimaryKey(kind, rows, row) ==
  \A c \in NOT_NULL[kind] : row[c] # None

\* whether INSERT / UPDATE leaves the constraints of _SCHEMA satisfied for
\* `row` beside `rows`; sqlite3.IntegrityError is raised when it does not
ConstraintsOk(kind, rows, row) ==
  /\ row[PK[kind]] \notin Ids(kind, rows)
  /\ \A c \in NOT_NULL[kind] : row[c] # None

\* the prefix of a new id: the first three letters of the category, in
\* upper case, for an equipment object
IdPrefix(kind, object_type) ==
  IF kind = "objects" THEN Upper(Take(Str(object_type), 3)) ELSE ID_PREFIX[kind]

\* numbering that fills gaps: the smallest number no row of the kind carries
NextSeqFirstFree(kind, rows, object_type) ==
  LET used == {CastInteger(Substr(r[PK[kind]], 5)) : r \in rows}
  IN  CHOOSE n \in 1..(Cardinality(rows) + 1) :
        n \notin used /\ \A m \in 1..(n - 1) : m \in used

\* the SELECT MAX ... of add_*, plus one: per category for equipment objects
NextSeq(kind, rows, object_type) ==
  NextNumber(SelectMax(IF kind = "objects"
                       THEN {r \in rows : SqlEq(r.object_type, object_type)}
                       ELSE rows,
                       PK[kind]))

\* the f-string of add_*: the id of the next row
ComputeId(kind, rows, object_type) ==
  FormatId(IdPrefix(kind, object_type), NextSeq(kind, rows, object_type),
           IdWidth(kind))

\* ";".join(paths); a path is one character
RECURSIVE Join(_)
Join(paths) ==
  IF Len(paths) <= 1 THEN paths
  ELSE <<paths[1], ";">> \o Join(Tail(paths))

\* the VALUES tuple of the INSERT of add_*(a), object_type already normalized
NewRow(kind, id, object_type, a, t) ==
  CASE kind = "objects" ->
         [object_id |-> id, object_type |-> object_type, name |-> a.name,
          description |-> a.description, status |-> a.status,
          created_date |-> t, last_updated |-> t, user_email |-> a.user_email]
    [] kind = "services" ->
         [service_id |-> id, object_id |-> a.object_id,
          object_type |-> object_type, service_name |-> a.service_name,
          description |-> a.description, interval_days |-> a.interval_days,
          last_service_date |-> None, next_service_date |-> t,
          status |-> a.status, notes |-> a.notes, created_date |-> t,
          expected_meter_reading |-> a.expected_meter_reading,
          meter_unit |-> a.meter_unit, user_email |-> a.user_email]
    [] kind = "reminders" ->
         [reminder_id |-> id, service_id |-> a.service_id,
          object_id |-> a.object_id, object_type |-> object_type,
          reminder_date |-> a.reminder_date, status |-> Pending,
          notes |-> a.notes, created_date |-> t, user_email |-> a.user_email,
          email_notification |-> IF Falsy(a.email_notification) THEN 0 ELSE 1,
          notification_time |-> a.notification_time, email_sent |-> 0]
    [] kind = "reports" ->
         [report_id |-> id, object_id |-> a.object_id,
          object_type |-> object_type, report_type |-> a.report_type,
          title |-> a.title, description |-> a.description,
          completion_date |->
            IF Falsy(a.completion_date) THEN t ELSE a.completion_date,
          notes |-> a.notes, created_date |-> t,
          actual_meter_reading |-> a.actual_meter_reading,
          meter_unit |-> a.meter_unit, user_email |-> a.user_email]
    [] kind = "fault_reports" ->
         [fault_id |-> id, object_id |-> a.object_id,
          object_type |-> object_type,
          observation_date |-> a.observation_date,
          actual_meter_reading |-> a.actual_meter_reading,
          meter_unit |-> a.meter_unit, description |-> a.description,
          photo_paths |->
            IF Falsy(a.photo_paths) THEN <<>> ELSE Join(a.photo_paths),
          created_date |-> t,
          user_email |-> a.user_email]

\* ---------------------------------------------------------- the store calls

\* the record of a call that has returned val (raised: an exception left
\* it); rowcount is cur.rowcount of its UPDATE or DELETE, rows the rows of
\* the DataFrame a get_* returned
Call(op, kind, id, args, val, raised, rowcount, rows) ==
  [op |-> op, kind |-> kind, id |-> id, args |-> args, val |-> val,
   raised |-> raised, rowcount |-> rowcount, rows |-> rows]

NoCall == Call("none", "none", None, <<>>, None, FALSE, 0, {})

NoPrev == [op |-> "none", kind |-> "none", id |-> None]

\* a client that is not inside add_*, and one whose add_* has not returned
NoPending ==
  [kind |-> "none", a |-> <<>>, object_type |-> None, id |-> None, t |-> 0,
   overlapped |-> FALSE]
NoResult ==
  [kind |-> "none", object_type |-> None, id |-> None, raised |-> FALSE,
   overlapped |-> FALSE]

\* no poll has run yet.  mailed: the reminders a poll with the data handler
\* delivered; marked: those a poll marked sent and no edit has reset since;
\* failed: those whose last delivery attempt failed, again: failed twice in
\* a row, neither edited since
NoHist == [mailed |-> {}, marked |-> {}, failed |-> {}, again |-> {}]

\* no transaction of delete_user_data is open
NoTxn ==
  [owner |-> None, open |-> FALSE, done |-> 0, work |-> [k \in Kinds |-> {}]]

\* the variables of the overlapping adds and the history
beside == <<photos, config, hist, txn>>
aside == <<pc, pending, result, prev, beside>>

\* the caller is between two calls
Idle == ret = NoCall

\* an add may run: the store is below its bound and so is the number
AddAllowed(kind, object_type) ==
  /\ TotalRows(store) < MaxRows
  /\ NextSeq(kind, store[kind], object_type) <= MaxNum

\* add_*: normalize, SELECT MAX, INSERT, return the id (one transaction-less
\* sequence of statements, run here without interruption)
AddRun(kind, a) ==
  LET object_type == normalize_object_type(a.object_type)
      id == ComputeId(kind, store[kind], object_type)
      row == NewRow(kind, id, object_type, a, now)
  IN  /\ Idle
      /\ AddAllowed(kind, object_type)
      /\ IF ConstraintsOk(kind, store[kind], row)
         THEN /\ store' = [store EXCEPT ![kind] = @ \cup {row}]
              /\ ret' = Call("add", kind, None, a, id, FALSE, 0, {})
         ELSE /\ store' = store
              /\ ret' = Call("add", kind, None, a, None, TRUE, 0, {})

AddCall(kind, a) == AddRun(kind, a) /\ UNCHANGED <<meter_units, now, aside>>

\* the arguments of add_object, with the defaults of its signature
ObjectArgs(object_type, name, description, status, user_email) ==
  [object_type |-> object_type, name |-> name, description |-> description,
   status |-> status, user_email |-> user_email]

\* the arguments of add_service; description, status, notes and the meter
\* fields at the defaults of its signature
ServiceArgs(object_id, object_type, service_name, interval_days, user_email) ==
  [object_id |-> object_id, object_type |-> object_type,
   service_name |-> service_name, interval_days |-> interval_days,
   description |-> <<>>, status |-> Scheduled, notes |-> <<>>,
   expected_meter_reading |-> None, meter_unit |-> None,
   user_email |-> user_email]

\* the arguments of add_reminder, notes and notification_time at their
\* defaults
ReminderArgs(service_id, object_id, object_type, reminder_date, user_email, email_notification) ==
  [service_id |-> service_id, object_id |-> object_id,
   object_type |-> object_type, reminder_date |-> reminder_date,
   notes |-> <<>>, user_email |-> user_email,
   email_notification |-> email_notification,
   notification_time |-> DefaultTime]

\* the arguments of add_report, the optional ones at their defaults
ReportArgs(object_id, object_type, report_type, title, user_email) ==
  [object_id |-> object_id, object_type |-> object_type,
   report_type |-> report_type, title |-> title,
   description |-> <<>>, completion_date |-> None, notes |-> <<>>,
   actual_meter_reading |-> None, meter_unit |-> None,
   user_email |-> user_email]

\* the arguments of add_fault_report: no meter reading, the unit km, no
\* photos
FaultReportArgs(object_id, object_type, observation_date, description, user_email) ==
  [object_id |-> object_id, object_type |-> object_type,
   observation_date |-> observation_date,
   actual_meter_reading |-> None, meter_unit |-> Km,
   description |-> description, photo_paths |-> None,
   user_email |-> user_email]

add_object(object_type, name, description, status, user_email) ==
  AddCall("objects",
          ObjectArgs(object_type, name, description, status, user_email))

add_service(object_id, object_type, service_name, interval_days, user_email) ==
  AddCall("services",
          ServiceArgs(object_id, object_type, service_name, interval_days,
                      user_email))

add_reminder(service_id, object_id, object_type, reminder_date, user_email, email_notification) ==
  AddCall("reminders",
          ReminderArgs(service_id, object_id, object_type, reminder_date,
                       user_email, email_notification))

add_report(object_id, object_type, report_type, title, user_email) ==
  AddCall("reports",
          ReportArgs(object_id, object_type, report_type, title, user_email))

add_fault_report(object_id, object_type, observation_date, description, user_email) ==
  AddCall("fault_reports",
          FaultReportArgs(object_id, object_type, observation_date,
                          description, user_email))

NameField ==
  [objects |-> "name", services |-> "service_name", reminders |-> "notes",
   reports |-> "title", fault_reports |-> "description"]

\* a SET list that stores object_type as it was given
SetListRaw(kind, kwargs, t) ==
  LET keys == {k \in DOMAIN kwargs : k \in TABLE_COLUMNS[kind]}
  IN  IF keys = {} \/ kind # "objects" THEN [k \in keys |-> kwargs[k]]
      ELSE [k \in keys \cup {"last_updated"} |->
              IF k = "last_updated" THEN t ELSE kwargs[k]]

\* the SET list of update_*: the valid keys of kwargs, object_type
\* normalized, and last_updated for an equipment object
SetList(kind, kwargs, t) ==
  LET keys == {k \in DOMAIN kwargs : k \in TABLE_COLUMNS[kind]}
      given == [k \in keys |->
                  IF k = "object_type" THEN normalize_object_type(kwargs[k])
                  ELSE kwargs[k]]
  IN  IF keys = {} \/ kind # "objects" THEN given
      ELSE [k \in keys \cup {"last_updated"} |->
              IF k = "last_updated" THEN t ELSE given[k]]

\* a row after UPDATE ... SET sets
Assign(r, sets) ==
  [c \in DOMAIN r |-> IF c \in DOMAIN sets THEN sets[c] ELSE r[c]]

\* an UPDATE without its WHERE clause: every row of the table is set
UpdateAllRows(kind, id, kwargs) ==
  LET sets == SetList(kind, kwargs, now)
      changed == {Assign(r, sets) : r \in store[kind]}
  IN  /\ Idle
      /\ IF DOMAIN sets = {}
         THEN /\ store' = store
              /\ ret' = Call("update", kind, id, kwargs, PyFalse, FALSE, 0, {})
         ELSE /\ store' = [store EXCEPT ![kind] = changed]
              /\ ret' = Call("update", kind, id, kwargs,
                             IF store[kind] # {} THEN PyTrue ELSE PyFalse,
                             FALSE, Cardinality(store[kind]), {})
      /\ UNCHANGED <<meter_units, now, aside>>

\* update_*: returns False when no key is valid, else whether the UPDATE
\* matched a row; sqlite3.IntegrityError leaves the table as it was
UpdateCall(kind, id, kwargs) ==
  LET sets == SetList(kind, kwargs, now)
      matched == {r \in store[kind] : SqlEq(r[PK[kind]], id)}
      rest == store[kind] \ matched
      changed == {Assign(r, sets) : r \in matched}
  IN  /\ Idle
      /\ IF DOMAIN sets = {}
         THEN /\ store' = store
              /\ ret' = Call("update", kind, id, kwargs, PyFalse, FALSE, 0, {})
         ELSE IF \A r \in changed : ConstraintsOk(kind, rest, r)
         THEN /\ store' = [store EXCEPT ![kind] = rest \cup changed]
              /\ ret' = Call("update", kind, id, kwargs,
                             IF Cardinality(matched) > 0 THEN PyTrue ELSE PyFalse,
                             FALSE, Cardinality(matched), {})
         ELSE /\ store' = store
              /\ ret' = Call("update", kind, id, kwargs, None, TRUE, 0, {})
      /\ UNCHANGED <<meter_units, now, aside>>

update_object(object_id, kwargs) == UpdateCall("objects", object_id, kwargs)
update_service(service_id, kwargs) == UpdateCall("services", service_id, kwargs)
update_reminder(reminder_id, kwargs) == UpdateCall("reminders", reminder_id, kwargs)
update_report(report_id, kwargs) == UpdateCall("reports", report_id, kwargs)
update_fault_report(fault_id, kwargs) == UpdateCall("fault_reports", fault_id, kwargs)

\* a delete of an equipment object that cascades to the rows that refer to it
DeleteCallCascade(kind, id, returns) ==
  LET matched == {r \in store[kind] : SqlEq(r[PK[kind]], id)}
  IN  /\ Idle
      /\ store' = [k \in Kinds |->
                     IF k = kind THEN store[k] \ matched
                     ELSE IF kind = "objects"
                     THEN {r \in store[k] : ~SqlEq(r.object_id, id)}
                     ELSE store[k]]
      /\ ret' = Call("delete", kind, id, <<>>,
                     IF ~returns THEN None
                     ELSE IF Cardinality(matched) > 0 THEN PyTrue ELSE PyFalse,
                     FALSE, Cardinality(matched), {})
      /\ UNCHANGED <<meter_units, now, aside>>

\* a delete that returns cur.rowcount >= 0
DeleteCallAtLeast(kind, id, returns) ==
  LET matched == {r \in store[kind] : SqlEq(r[PK[kind]], id)}
  IN  /\ Idle
      /\ store' = [store EXCEPT ![kind] = @ \ matched]
      /\ ret' = Call("delete", kind, id, <<>>,
                     IF ~returns THEN None ELSE PyTrue,
                     FALSE, Cardinality(matched), {})
      /\ UNCHANGED <<meter_units, now, aside>>

\* DELETE FROM kind WHERE pk = id; `returns` tells whether the method
\* returns cur.rowcount > 0 (it returns None when it has no return statement)
DeleteCall(kind, id, returns) ==
  LET matched == {r \in store[kind] : SqlEq(r[PK[kind]], id)}
  IN  /\ Idle
      /\ store' = [store EXCEPT ![kind] = @ \ matched]
      /\ ret' = Call("delete", kind, id, <<>>,
                     IF ~returns THEN None
                     ELSE IF Cardinality(matched) > 0 THEN PyTrue ELSE PyFalse,
                     FALSE, Cardinality(matched), {})
      /\ UNCHANGED <<meter_units, now, aside>>

delete_object(object_id) == DeleteCall("objects", object_id, FALSE)
delete_service(service_id) == DeleteCall("services", service_id, FALSE)
delete_reminder(reminder_id) == DeleteCall("reminders", reminder_id, TRUE)
delete_report(report_id) == DeleteCall("reports", report_id, TRUE)
delete_fault_report(fault_id) == DeleteCall("fault_reports", fault_id, TRUE)

\* _norm_df: the rows with their object_type normalized
norm_df(rows) ==
  {[r EXCEPT !.object_type = normalize_object_type(@)] : r \in rows}

\* a WHERE clause with a conjunct for every filter, given or not
WhereAlways(kind, f, r) ==
  /\ SqlEq(r.object_type, normalize_object_type(f.object_type))
  /\ SqlEq(r.object_id, f.object_id)
  /\ SqlEq(r.status, f.status)
  /\ ~f.is_admin => SqlEq(r.user_email, f.user_email)

\* a WHERE clause without the owner conjunct
WhereNoOwner(kind, f, r) ==
  /\ ~Falsy(f.object_type) =>
       SqlEq(r.object_type, normalize_object_type(f.object_type))
  /\ ~Falsy(f.object_id) => SqlEq(r.object_id, f.object_id)
  /\ ~Falsy(f.status) => SqlEq(r.status, f.status)

\* the WHERE clause of get_*: one conjunct per filter that is truthy
Where(kind, f, r) ==
  /\ ~Falsy(f.object_type) =>
       SqlEq(r.object_type, normalize_object_type(f.object_type))
  /\ ~Falsy(f.object_id) => SqlEq(r.object_id, f.object_id)
  /\ ~Falsy(f.status) => SqlEq(r.status, f.status)
  /\ (~Falsy(f.user_email) /\ ~f.is_admin) => SqlEq(r.user_email, f.user_email)

\* get_*: SELECT * FROM kind WHERE ..., then _norm_df
Query(kind, f) == norm_df({r \in store[kind] : Where(kind, f, r)})

GetCall(kind, f) ==
  /\ Idle
  /\ ret' = Call("get", kind, None, f, None, FALSE, 0, Query(kind, f))
  /\ UNCHANGED <<store, meter_units, now, aside>>

\* get_objects has no object_id and no status filter
get_objects(object_type, user_email, is_admin) ==
  GetCall("objects",
          [object_type |-> object_type, object_id |-> None, status |-> None,
           user_email |-> user_email, is_admin |-> is_admin])

get_services(object_type, object_id, user_email, is_admin) ==
  GetCall("services",
          [object_type |-> object_type, object_id |-> object_id,
           status |-> None, user_email |-> user_email, is_admin |-> is_admin])

get_reminders(object_type, object_id, status, user_email, is_admin) ==
  GetCall("reminders",
          [object_type |-> object_type, object_id |-> object_id,
           status |-> status, user_email |-> user_email, is_admin |-> is_admin])

get_reports(object_type, object_id, user_email, is_admin) ==
  GetCall("reports",
          [object_type |-> object_type, object_id |-> object_id,
           status |-> None, user_email |-> user_email, is_admin |-> is_admin])

get_fault_reports(object_type, object_id, user_email, is_admin) ==
  GetCall("fault_reports",
          [object_type |-> object_type, object_id |-> object_id,
           status |-> None, user_email |-> user_email, is_admin |-> is_admin])

\* the caller takes the result; the next call may start
Return ==
  /\ ~Idle
  /\ ret' = NoCall
  /\ UNCHANGED <<store, meter_units, now, pc, pending, result, prev, beside>>

\* the same, and the history of the call is kept for the next one
ReturnNoted ==
  /\ ~Idle
  /\ ret' = NoCall
  /\ prev' = IF \/ ret.op = "add" /\ ~ret.raised
                \/ ret.op = "delete" /\ ret.rowcount > 0
             THEN [op |-> ret.op, kind |-> ret.kind,
                   id |-> IF ret.op = "add" THEN ret.val ELSE ret.id]
             ELSE NoPrev
  /\ UNCHANGED <<store, meter_units, now, pc, pending, result, beside>>

\* ---------------------------------------------------------- the call inputs

Clients == {"c1", "c2"}

\* the ids a caller passes to update_* and delete_*: those of the rows
\* present and one more well-formed id of the kind
CallIds(kind) ==
  Ids(kind, store[kind])
  \cup {FormatId(IdPrefix(kind, Vehicle), MaxNum, IdWidth(kind))}

Unknown == <<"x">>

\* update_*(id, pk=...): the id column of the kind set to an id
IdKwargs(kind) == {[k \in {PK[kind]} |-> id] : id \in CallIds(kind)}

\* update_*(id, object_type=...) with a raw category
TypeKwargs == {[object_type |-> t] : t \in {PaddedVeh, PaddedBoat}}

\* update_*(id, unknown_field=...), update_*(id, name=..., unknown_field=...)
\* with the kind's own name column, and with "name" itself
NameKwargs(kind) ==
  {[unknown_field |-> Unknown]}
  \cup {[k \in {c, "unknown_field"} |->
           IF k = "unknown_field" THEN Unknown ELSE NewName] :
        c \in {NameField[kind], "name"}}

SpecTypes == {PaddedVeh, PaddedBoat}
TypeFilters == {None, <<"v","e","h">>}

\* -------------------------------------------------------- the specifications

\* after DataHandler(): the tables created, empty, and meter_units seeded
Init ==
  /\ store = [k \in Kinds |-> {}]
  /\ meter_units = {Km, KWh}
  /\ now = 0
  /\ ret = NoCall
  /\ pc = [c \in Clients |-> "idle"]
  /\ pending = [c \in Clients |-> NoPending]
  /\ result = [c \in Clients |-> NoResult]
  /\ prev = NoPrev
  /\ photos = {}
  /\ config = "missing"
  /\ hist = NoHist
  /\ txn = NoTxn

\* Rows and their ids.  Every call runs to its end before the next starts:
\* rows are added, their id column is updated, and rows are deleted.
Next ==
  \/ \E t \in SpecTypes : add_object(t, Name, <<>>, Active, <<"a">>)
  \/ \E o \in ObjRefs : add_service(o, PaddedVeh, Name, 30, <<"a">>)
  \/ \E v \in SvcRefs, o \in ObjRefs :
       add_reminder(v, o, PaddedVeh, now, <<"a">>, PyFalse)
  \/ \E o \in ObjRefs : add_report(o, PaddedVeh, <<"S">>, Name, <<"a">>)
  \/ \E o \in ObjRefs : add_fault_report(o, PaddedVeh, now, Name, <<"a">>)
  \/ \E id \in CallIds("objects"), kw \in IdKwargs("objects") :
       update_object(id, kw)
  \/ \E id \in CallIds("services"), kw \in IdKwargs("services") :
       update_service(id, kw)
  \/ \E id \in CallIds("reminders"), kw \in IdKwargs("reminders") :
       update_reminder(id, kw)
  \/ \E id \in CallIds("reports"), kw \in IdKwargs("reports") :
       update_report(id, kw)
  \/ \E id \in CallIds("fault_reports"), kw \in IdKwargs("fault_reports") :
       update_fault_report(id, kw)
  \/ \E id \in CallIds("objects") : delete_object(id)
  \/ \E id \in CallIds("services") : delete_service(id)
  \/ \E id \in CallIds("reminders") : delete_reminder(id)
  \/ \E id \in CallIds("reports") : delete_report(id)
  \/ \E id \in CallIds("fault_reports") : delete_fault_report(id)
  \/ Return

Spec == Init /\ [][Next]_vars

\* Categories.  Rows are added with raw categories, their category is
\* updated to a raw category, and every table is read, with a category
\* filter and without.
NextCategories ==
  \/ \E t \in SpecTypes : add_object(t, Name, <<>>, Active, <<"a">>)
  \/ \E o \in ObjRefs, t \in SpecTypes : add_service(o, t, Name, 30, <<"a">>)
  \/ \E v \in SvcRefs, o \in ObjRefs, t \in SpecTypes :
       add_reminder(v, o, t, now, <<"a">>, PyFalse)
  \/ \E o \in ObjRefs, t \in SpecTypes :
       add_report(o, t, <<"S">>, Name, <<"a">>)
  \/ \E o \in ObjRefs, t \in SpecTypes :
       add_fault_report(o, t, now, Name, <<"a">>)
  \/ \E id \in CallIds("objects"), kw \in TypeKwargs : update_object(id, kw)
  \/ \E id \in CallIds("services"), kw \in TypeKwargs :
       update_service(id, kw)
  \/ \E id \in CallIds("reminders"), kw \in TypeKwargs :
       update_reminder(id, kw)
  \/ \E id \in CallIds("reports"), kw \in TypeKwargs : update_report(id, kw)
  \/ \E id \in CallIds("fault_reports"), kw \in TypeKwargs :
       update_fault_report(id, kw)
  \/ \E t \in TypeFilters : get_objects(t, None, FALSE)
  \/ \E t \in TypeFilters : get_services(t, None, None, FALSE)
  \/ \E t \in TypeFilters : get_reminders(t, None, None, None, FALSE)
  \/ \E t \in TypeFilters : get_reports(t, None, None, FALSE)
  \/ \E t \in TypeFilters : get_fault_reports(t, None, None, FALSE)
  \/ Return

SpecCategories == Init /\ [][NextCategories]_vars

\* ------------------------------------------------- the normalizer on its own

\* the words a raw category is built from: the eight aliases, and five
\* strings that are no alias (one of them empty, one with a space inside)
AliasWords == DOMAIN OBJECT_TYPE_CANON
OtherWords ==
  {<<"b","o","a","t">>, <<"v","e","h","i","c","l">>,
   <<"v","e","h","i","c","l","e","x">>, <<"v","e"," ","h">>, <<>>}

\* a word in lower case, in upper case, or capitalized
Cased(w, casing) ==
  CASE casing = "lower" -> w
    [] casing = "upper" -> Upper(w)
    [] casing = "title" -> Upper(Take(w, 1)) \o Substr(w, 2)

\* a string with whitespace put before it, after it, or on both sides
Padded(w, pad) ==
  CASE pad = "none" -> w
    [] pad = "before" -> <<" ">> \o w
    [] pad = "after" -> w \o <<"\t">>
    [] pad = "both" -> <<"\n", " ">> \o w \o <<" ">>

\* normalize_object_type(value) called on its own; args tells how value
\* was built (<<>> for None)
normalize_call(value, how) ==
  /\ Idle
  /\ ret' = Call("normalize", "none", value, how,
                 normalize_object_type(value), FALSE, 0, {})
  /\ UNCHANGED <<store, meter_units, now, aside>>

NextNormalize ==
  \/ \E w \in AliasWords \cup OtherWords,
        c \in {"lower", "upper", "title"},
        p \in {"none", "before", "after", "both"} :
       normalize_call(Padded(Cased(w, c), p),
                      [word |-> w, casing |-> c, pad |-> p])
  \/ normalize_call(None, <<>>)
  \/ Return

SpecNormalize == Init /\ [][NextNormalize]_vars

\* C7: normalize_object_type maps every alias, whatever its case and the
\* whitespace around it, to its canonical value (vehicle, vehicles, veh to
\* Vehicle; facility, facilities, fac to Facility; other, equipment to
\* Other), returns every other string trimmed and otherwise unchanged, and
\* returns None for None.
C7_NormalizeContract ==
  ret.op = "normalize" =>
    IF ret.id = None THEN ret.val = None
    ELSE LET w == ret.args.word
         IN  /\ w \in {<<"v","e","h","i","c","l","e">>,
                       <<"v","e","h","i","c","l","e","s">>, <<"v","e","h">>}
                  => ret.val = <<"V","e","h","i","c","l","e">>
             /\ w \in {<<"f","a","c","i","l","i","t","y">>,
                       <<"f","a","c","i","l","i","t","i","e","s">>,
                       <<"f","a","c">>}
                  => ret.val = <<"F","a","c","i","l","i","t","y">>
             /\ w \in {<<"o","t","h","e","r">>,
                       <<"e","q","u","i","p","m","e","n","t">>}
                  => ret.val = <<"O","t","h","e","r">>
             /\ w \in OtherWords => ret.val = Cased(w, ret.args.casing)

\* an alias in upper case with whitespace on both sides has been normalized
C7_Witness ==
  /\ ret.op = "normalize"
  /\ ret.id = <<"\n"," ","F","A","C","I","L","I","T","I","E","S"," ">>
  /\ ret.val = Facility

\* ------------------------------------------------- ids and categories (Spec)

RECURSIVE NumberOf(_)
\* the number a string of digits writes
NumberOf(s) ==
  IF s = <<>> THEN 0
  ELSE 10 * NumberOf(SubSeq(s, 1, Len(s) - 1)) + DigitVal(s[Len(s)])

\* the numeric suffix of an id: the number its trailing digits write
Suffix(id) ==
  LET k == CHOOSE n \in 0..Len(id) :
             /\ \A i \in (Len(id) - n + 1)..Len(id) : DigitVal(id[i]) >= 0
             /\ n = Len(id) \/ DigitVal(id[Len(id) - n]) < 0
  IN  NumberOf(SubSeq(id, Len(id) - k + 1, Len(id)))

\* no two rows of one kind share an id
UniqueIds(s) ==
  \A k \in Kinds : \A r1, r2 \in s[k] : r1[PK[k]] = r2[PK[k]] => r1 = r2

C6_CategoriesNormalized ==
  /\ \A k \in Kinds : \A r \in store[k] :
       normalize_object_type(r.object_type) = r.object_type
  /\ ret.op = "get" =>
       \A r \in ret.rows : normalize_object_type(r.object_type) = r.object_type

\* get_reports returned a report whose category was given as " Veh\t" and
\* one whose category was given as "boat "
C6_Witness ==
  /\ ret.op = "get"
  /\ ret.kind = "reports"
  /\ \E r1, r2 \in ret.rows :
       /\ r1.object_type = Vehicle
       /\ r2.object_type = <<"b","o","a","t">>

\* C9: for every kind, Delete(id) removes the row with that id and returns
\* whether a row existed: a true result when a row with the id was present
\* before the call, a false result when none was.
C9_DeleteReturnsExisted ==
  [][ret'.op = "delete" =>
       /\ ret'.id \notin Ids(ret'.kind, store'[ret'.kind])
       /\ IF ret'.id \in Ids(ret'.kind, store[ret'.kind])
          THEN ~Falsy(ret'.val) ELSE Falsy(ret'.val)]_vars

\* C10: for every kind, Delete(id) with an id that no row has returns a
\* falsy result, raises nothing and leaves every table unchanged.
C10_DeleteAbsent ==
  [][(ret'.op = "delete" /\ ret'.id \notin Ids(ret'.kind, store[ret'.kind]))
       => Falsy(ret'.val) /\ ~ret'.raised /\ store' = store]_vars

\* delete_reminder was called with an id no reminder has, beside a reminder
\* that is there
C10_Witness ==
  /\ ret.op = "delete"
  /\ ret.kind = "reminders"
  /\ ret.rowcount = 0
  /\ store["reminders"] # {}
  /\ ret.id \notin Ids("reminders", store["reminders"])

\* ------------------------------------------------ adds and deletes on their own

AddTypes == {Boat, PaddedBoat, PaddedVeh}

\* add_* and delete_* calls only, one after the other, the equipment
\* objects in three spellings of two categories; prev keeps what the call
\* before did
NextAddDelete ==
  \/ \E t \in AddTypes : add_object(t, Name, <<>>, Active, <<"a">>)
  \/ \E o \in ObjRefs : add_service(o, PaddedVeh, Name, 30, <<"a">>)
  \/ \E v \in SvcRefs, o \in ObjRefs :
       add_reminder(v, o, PaddedVeh, now, <<"a">>, PyFalse)
  \/ \E o \in ObjRefs : add_report(o, PaddedVeh, <<"S">>, Name, <<"a">>)
  \/ \E o \in ObjRefs : add_fault_report(o, PaddedVeh, now, Name, <<"a">>)
  \/ \E id \in CallIds("objects") : delete_object(id)
  \/ \E id \in CallIds("services") : delete_service(id)
  \/ \E id \in CallIds("reminders") : delete_reminder(id)
  \/ \E id \in CallIds("reports") : delete_report(id)
  \/ \E id \in CallIds("fault_reports") : delete_fault_report(id)
  \/ ReturnNoted

SpecAddDelete == Init /\ [][NextAddDelete]_vars

\* the call in ret is an add that returned an id, and the call before it
\* was `op` on the same kind (an add that returned, a delete that removed)
AddAfter(op) ==
  /\ ret.op = "add"
  /\ ~ret.raised
  /\ prev.op = op
  /\ prev.kind = ret.kind

SameSequence(kind, rows, object_type) ==
  IF kind = "objects" THEN {r \in rows : r.object_type = object_type} ELSE rows

Tick ==
  /\ Idle
  /\ now < MaxClock
  /\ now' = now + 1
  /\ UNCHANGED <<store, meter_units, ret, aside>>

\* rows are added, time passes, and update_* is called with a mapping that
\* holds a field unknown to the schema, alone or beside a name
NextUpdate ==
  \/ add_object(PaddedVeh, Name, <<>>, Active, <<"a">>)
  \/ \E o \in ObjRefs : add_service(o, PaddedVeh, Name, 30, <<"a">>)
  \/ \E v \in SvcRefs, o \in ObjRefs :
       add_reminder(v, o, PaddedVeh, now, <<"a">>, PyFalse)
  \/ \E o \in ObjRefs : add_report(o, PaddedVeh, <<"S">>, Name, <<"a">>)
  \/ \E o \in ObjRefs : add_fault_report(o, PaddedVeh, now, Name, <<"a">>)
  \/ \E id \in CallIds("objects"), kw \in NameKwargs("objects") :
       update_object(id, kw)
  \/ \E id \in CallIds("services"), kw \in NameKwargs("services") :
       update_service(id, kw)
  \/ \E id \in CallIds("reminders"), kw \in NameKwargs("reminders") :
       update_reminder(id, kw)
  \/ \E id \in CallIds("reports"), kw \in NameKwargs("reports") :
       update_report(id, kw)
  \/ \E id \in CallIds("fault_reports"), kw \in NameKwargs("fault_reports") :
       update_fault_report(id, kw)
  \/ Tick
  \/ Return

SpecUpdate == Init /\ [][NextUpdate]_vars

\* C8: an update_* call on an existing row with a mapping that holds one
\* schema field (a name) and one field that is not in the schema raises no
\* error and changes only the supplied schema field of that row (plus
\* last_updated for an equipment object); every other field of the row and
\* every other row of every table is unchanged.
C8_UpdateFrame ==
  [][(/\ ret'.op = "update"
      /\ "unknown_field" \in DOMAIN ret'.args
      /\ ret'.id \in Ids(ret'.kind, store[ret'.kind]))
     => LET k == ret'.kind
            supplied == DOMAIN ret'.args \cap TABLE_COLUMNS[k]
            stamped == k = "objects" /\ supplied # {}
        IN  /\ ~ret'.raised
            /\ \A j \in Kinds \ {k} : store'[j] = store[j]
            /\ Cardinality(store'[k]) = Cardinality(store[k])
            /\ \A r \in store[k] : r[PK[k]] # ret'.id => r \in store'[k]
            /\ \E r \in store[k], r2 \in store'[k] :
                 /\ r[PK[k]] = ret'.id
                 /\ r2[PK[k]] = ret'.id
                 /\ \A c \in supplied : r2[c] = ret'.args[c]
                 /\ stamped => r2.last_updated = now
                 /\ \A c \in DOMAIN r :
                      (c \notin supplied /\ ~(stamped /\ c = "last_updated"))
                        => r2[c] = r[c]]_vars

\* update_object(id, name=..., unknown_field=...) has renamed one of two
\* equipment objects, after time had passed since it was added
C8_Witness ==
  /\ ret.op = "update"
  /\ ret.kind = "objects"
  /\ DOMAIN ret.args = {"name", "unknown_field"}
  /\ \E r1, r2 \in store["objects"] :
       /\ r1.object_id = ret.id
       /\ r1.name = NewName
       /\ r1.created_date = 0
       /\ r1.last_updated = 1
       /\ r2.object_id # ret.id
       /\ r2.name = Name

\* ------------------------------------------------------------ owner scoping

\* rows are added for user a, for user b and without an owner, and every
\* get_* is called for each of them, as an admin and not, without any other
\* filter
NextOwners ==
  \/ \E u \in Owners : add_object(PaddedVeh, Name, <<>>, Active, u)
  \/ \E o \in ObjRefs, u \in Owners : add_service(o, PaddedVeh, Name, 30, u)
  \/ \E v \in SvcRefs, o \in ObjRefs, u \in Owners :
       add_reminder(v, o, PaddedVeh, now, u, PyFalse)
  \/ \E o \in ObjRefs, u \in Owners :
       add_report(o, PaddedVeh, <<"S">>, Name, u)
  \/ \E o \in ObjRefs, u \in Owners :
       add_fault_report(o, PaddedVeh, now, Name, u)
  \/ \E u \in Owners, adm \in BOOLEAN : get_objects(None, u, adm)
  \/ \E u \in Owners, adm \in BOOLEAN : get_services(None, None, u, adm)
  \/ \E u \in Owners, adm \in BOOLEAN : get_reminders(None, None, None, u, adm)
  \/ \E u \in Owners, adm \in BOOLEAN : get_reports(None, None, u, adm)
  \/ \E u \in Owners, adm \in BOOLEAN : get_fault_reports(None, None, u, adm)
  \/ Return

SpecOwners == Init /\ [][NextOwners]_vars

\* C2: for each of the five get_* queries, with rows owned by user A and
\* rows owned by user B in the store, the query with owner A and
\* is_admin false returns exactly A's rows (and no row of B), and the query
\* with owner A and is_admin true returns the rows of both A and B.
C2_OwnerScoping ==
  (ret.op = "get" /\ ret.args.user_email \in Users) =>
    ret.rows = IF ret.args.is_admin THEN store[ret.kind]
               ELSE {r \in store[ret.kind] :
                       r.user_email = ret.args.user_email}

\* get_reminders for user a, not an admin, returned a's reminder and not
\* the reminder of user b that is in the table too
C2_Witness ==
  /\ ret.op = "get"
  /\ ret.kind = "reminders"
  /\ ret.args.user_email = <<"a">>
  /\ ~ret.args.is_admin
  /\ Cardinality(ret.rows) = 1
  /\ \E r \in store["reminders"] : r.user_email = <<"b">>

\* ------------------------------------------------------- overlapping adds

\* the first half of add_*(a) run by client c on its own connection:
\* normalize, read the clock, SELECT MAX (a statement of its own, outside
\* any transaction), compute the id.  The call overlaps every add_* that
\* another client has begun and not ended.
AddSelect(c, kind, a) ==
  LET object_type == normalize_object_type(a.object_type)
      inside == {d \in Clients \ {c} : pc[d] = "selected"}
  IN  /\ Idle
      /\ pc[c] = "idle"
      /\ TotalRows(store) + Cardinality(inside) < MaxRows
      /\ NextSeq(kind, store[kind], object_type) <= MaxNum
      /\ pc' = [pc EXCEPT ![c] = "selected"]
      /\ pending' =
           [d \in Clients |->
              IF d = c
              THEN [kind |-> kind, a |-> a, object_type |-> object_type,
                    id |-> ComputeId(kind, store[kind], object_type),
                    t |-> now, overlapped |-> inside # {}]
              ELSE IF d \in inside
              THEN [pending[d] EXCEPT !.overlapped = TRUE]
              ELSE pending[d]]
      /\ result' = [result EXCEPT ![c] = NoResult]
      /\ UNCHANGED <<store, meter_units, now, ret, prev, beside>>

\* the second half: INSERT (with its implicit BEGIN and the COMMIT of the
\* with block) and return of the id; sqlite3.IntegrityError leaves add_*
\* when the id is in use by then
AddInsert(c) ==
  LET p == pending[c]
      row == NewRow(p.kind, p.id, p.object_type, p.a, p.t)
      ok == ConstraintsOk(p.kind, store[p.kind], row)
  IN  /\ Idle
      /\ pc[c] = "selected"
      /\ store' = IF ok THEN [store EXCEPT ![p.kind] = @ \cup {row}] ELSE store
      /\ result' = [result EXCEPT ![c] =
                      [kind |-> p.kind, object_type |-> p.object_type,
                       id |-> IF ok THEN p.id ELSE None, raised |-> ~ok,
                       overlapped |-> p.overlapped]]
      /\ pc' = [pc EXCEPT ![c] = "idle"]
      /\ pending' = [pending EXCEPT ![c] = NoPending]
      /\ UNCHANGED <<meter_units, now, ret, prev, beside>>

\* two clients add rows, each add_* in its two steps, and rows are deleted
\* in between
NextConc ==
  \/ \E c \in Clients, t \in SpecTypes :
       AddSelect(c, "objects", ObjectArgs(t, Name, <<>>, Active, <<"a">>))
  \/ \E c \in Clients, o \in ObjRefs :
       AddSelect(c, "services", ServiceArgs(o, PaddedVeh, Name, 30, <<"a">>))
  \/ \E c \in Clients, v \in SvcRefs, o \in ObjRefs :
       AddSelect(c, "reminders",
                 ReminderArgs(v, o, PaddedVeh, now, <<"a">>, PyFalse))
  \/ \E c \in Clients, o \in ObjRefs :
       AddSelect(c, "reports",
                 ReportArgs(o, PaddedVeh, <<"S">>, Name, <<"a">>))
  \/ \E c \in Clients, o \in ObjRefs :
       AddSelect(c, "fault_reports",
                 FaultReportArgs(o, PaddedVeh, now, Name, <<"a">>))
  \/ \E c \in Clients : AddInsert(c)
  \/ \E id \in CallIds("objects") : delete_object(id)
  \/ \E id \in CallIds("services") : delete_service(id)
  \/ \E id \in CallIds("reminders") : delete_reminder(id)
  \/ \E id \in CallIds("reports") : delete_report(id)
  \/ \E id \in CallIds("fault_reports") : delete_fault_report(id)
  \/ Return

SpecConc == Init /\ [][NextConc]_vars

\* C1: when two add calls for the same kind (and, for equipment objects,
\* the same category) overlap in time, each doing its SELECT MAX and its
\* INSERT as separate steps on its own connection, the two calls never both
\* return the same id, and the store never holds two rows of that kind with
\* the same id.
C1_OverlappingAddsDistinct ==
  /\ UniqueIds(store)
  /\ \A c, d \in Clients :
       (/\ c # d
        /\ result[c].overlapped /\ result[d].overlapped
        /\ result[c].kind # "none" /\ result[c].kind = result[d].kind
        /\ result[c].kind = "objects" =>
             result[c].object_type = result[d].object_type
        /\ ~result[c].raised /\ ~result[d].raised)
       => result[c].id # result[d].id

\* ------------------------------------------------------ fault report photos

\* the names of the files a user uploads
Paths == {"p", "q"}
PhotoLists == {<<>>, <<"p">>, <<"q">>, <<"p", "q">>}

\* [p for p in photo_paths.split(";") if p]: the photos of a fault report
Split(photo_paths) == {photo_paths[i] : i \in DOMAIN photo_paths} \ {";"}

\* the add form of the fault reports page: every uploaded file is written to
\* data/fault_photos under a new name, then add_fault_report stores the paths
add_fault_form(object_id, filter_type, uploaded_files, user_email) ==
  /\ \A i \in DOMAIN uploaded_files : uploaded_files[i] \notin photos
  /\ photos' = photos \cup {uploaded_files[i] : i \in DOMAIN uploaded_files}
  /\ AddRun("fault_reports",
            [FaultReportArgs(object_id, filter_type, now, Name, user_email)
               EXCEPT !.photo_paths = uploaded_files])
  /\ UNCHANGED <<meter_units, now, pc, pending, result, prev, config, hist, txn>>

\* Fault reports and their photos: reports are added through the form, with
\* zero, one or two photos, and deleted.
NextPhotos ==
  \/ \E o \in ObjRefs, f \in PhotoLists, u \in Users :
       add_fault_form(o, Vehicle, f, u)
  \/ \E id \in CallIds("fault_reports") : delete_fault_report(id)
  \/ Tick
  \/ Return

SpecPhotos == Init /\ [][NextPhotos]_vars

\* C11: when delete_fault_report removes a fault report, none of the photos
\* of that report is left
C11_DeleteRemovesPhotos ==
  [][(Idle /\ ret'.op = "delete" /\ ret'.kind = "fault_reports")
     => \A r \in store["fault_reports"] \ store'["fault_reports"] :
          Split(r.photo_paths) \cap photos' = {}]_vars

\* --------------------------------------------------------------- the notifier

\* an administrator writes, rewrites or removes email_config.yaml
write_config(c) ==
  /\ Idle
  /\ c # config
  /\ config' = c
  /\ UNCHANGED <<store, meter_units, now, ret, pc, pending, result, prev, photos, hist, txn>>

\* a notifier that is enabled whenever email_config.yaml exists
EnabledIfPresent == config # "missing"

\* EmailNotifier().is_enabled(): the file exists and its smtp.enabled is true
is_enabled == config = "enabled"

\* str(date) of the date input: day d of the clock is 2024-01-(d + 2)
DateStr(d) == <<"2","0","2","4","-","0","1","-">> \o ZeroPad(d + 2, 2)

\* pd.to_datetime(s).date() as the set holding the day of the clock, empty
\* when it raises
ParseDate(s) ==
  IF /\ Len(s) = 10
     /\ SubSeq(s, 1, 8) = <<"2","0","2","4","-","0","1","-">>
     /\ DigitVal(s[9]) >= 0
     /\ DigitVal(s[10]) >= 0
     /\ (DigitVal(s[9]) * 10 + DigitVal(s[10])) \in 1..31
  THEN {DigitVal(s[9]) * 10 + DigitVal(s[10]) - 2}
  ELSE {}

\* a loop body that does not look at the status
DueAnyStatus(reminder, today) ==
  /\ reminder.email_notification # 0
  /\ reminder.email_sent = 0
  /\ \E d \in ParseDate(reminder.reminder_date) : today >= d

\* a loop body that does not look at email_sent
DueThoughSent(reminder, today) ==
  /\ reminder.email_notification # 0
  /\ reminder.status = Pending
  /\ \E d \in ParseDate(reminder.reminder_date) : today >= d

\* the body of the loop up to the call of send_reminder_email: whether the
\* reminder gets a delivery attempt (an unparsable date is caught and skipped)
Due(reminder, today) ==
  /\ reminder.email_notification # 0
  /\ reminder.status = Pending
  /\ reminder.email_sent = 0
  /\ \E d \in ParseDate(reminder.reminder_date) : today >= d

\* a loop that an exception ends: no reminder after the first one whose
\* delivery or marking failed is looked at
AttemptedUntilFailure(reminders_df, up, unlocked) ==
  LET due == {r.reminder_id : r \in {x \in reminders_df : Due(x, now)}}
      n(id) == CastInteger(Substr(id, 5))
  IN  IF ~is_enabled THEN {}
      ELSE {id \in due : \A o \in due \ (up \cap unlocked) : n(id) <= n(o)}

\* the reminders of the snapshot that send_reminder_email is called for;
\* `up`: those the transport accepts, `unlocked`: those update_reminder can
\* write
Attempted(reminders_df, up, unlocked) ==
  IF ~is_enabled \/ reminders_df = {} THEN {}
  ELSE {r.reminder_id : r \in {x \in reminders_df : Due(x, now)}}

\* a poll that marks every reminder it tried to deliver
MarkedThoughFailed(attempted, delivered, data_handler, unlocked) ==
  IF data_handler THEN attempted \cap unlocked ELSE {}

\* the reminders update_reminder(id, email_sent=True) is called for, and
\* does not raise for
Marked(attempted, delivered, data_handler, unlocked) ==
  IF data_handler THEN delivered \cap unlocked ELSE {}

\* a poll that completes the reminders it delivered
SentAndCompleted == [email_sent |-> 1, status |-> <<"C","o","m","p","l","e","t","e","d">>]

\* the keyword arguments of the poll's update_reminder; sqlite3 binds True
\* as 1
SentKwargs == [email_sent |-> 1]

\* check_and_send_pending_reminders(reminders_df, users_config, data_handler):
\* the whole loop; returns the number of reminders delivered
check_and_send_pending_reminders(reminders_df, data_handler, up, unlocked) ==
  LET attempted == Attempted(reminders_df, up, unlocked)
      delivered == attempted \cap up
      marked == Marked(attempted, delivered, data_handler, unlocked)
      sets == SetList("reminders", SentKwargs, now)
  IN  /\ Idle
      /\ store' = [store EXCEPT !["reminders"] =
                     {IF \E id \in marked : SqlEq(r.reminder_id, id)
                      THEN Assign(r, sets) ELSE r : r \in @}]
      /\ ret' = Call("poll", "reminders", None,
                     [data_handler |-> data_handler, enabled |-> is_enabled,
                      attempted |-> attempted, delivered |-> delivered,
                      marked |-> marked],
                     Cardinality(delivered), FALSE, Cardinality(marked),
                     reminders_df)
      /\ UNCHANGED <<meter_units, now, aside>>

\* the edit form of the reminders page, saved with the fields as the form
\* shows them and a status: email_sent is reset
edit_reminder_form(selected_reminder_id, status) ==
  \E r \in store["reminders"] :
    /\ r.reminder_id = selected_reminder_id
    /\ \E d \in ParseDate(r.reminder_date) :
         update_reminder(selected_reminder_id,
                         [reminder_date |-> DateStr(d), status |-> status,
                          notes |-> r.notes,
                          email_notification |-> r.email_notification,
                          notification_time |-> r.notification_time,
                          email_sent |-> 0])

\* the caller takes the result, and the history of the polls is brought up
\* to date
ReturnPolled ==
  /\ ~Idle
  /\ ret' = NoCall
  /\ hist' =
       IF ret.op = "poll"
       THEN LET lost == ret.args.attempted \ ret.args.delivered
            IN  [mailed |-> hist.mailed \cup
                              (IF ret.args.data_handler
                               THEN ret.args.delivered ELSE {}),
                 marked |-> hist.marked \cup ret.args.marked,
                 failed |-> (hist.failed \ ret.args.delivered) \cup lost,
                 again |-> (hist.again \ ret.args.delivered)
                           \cup (lost \cap hist.failed)]
       ELSE IF ret.op = "update" /\ ret.rowcount > 0
       THEN [hist EXCEPT !.marked = @ \ {ret.id}, !.failed = @ \ {ret.id},
                         !.again = @ \ {ret.id}]
       ELSE hist
  /\ UNCHANGED <<store, meter_units, now, pc, pending, result, prev, photos, config, txn>>

\* what the add calls pass as reminder_date, email_notification and
\* notification_time: due yesterday, due today with another time, not to be
\* mailed, due tomorrow, and a date that does not parse
ReminderForms ==
  {<<DateStr(-1), PyTrue, DefaultTime>>,
   <<DateStr(0), PyTrue, <<"2","3",":","5","9">>>>,
   <<DateStr(0), PyFalse, DefaultTime>>,
   <<DateStr(1), PyTrue, DefaultTime>>,
   <<<<"s","o","o","n">>, PyTrue, DefaultTime>>}

\* the page's poll on load: get_reminders(user_email=u, is_admin=False), then
\* check_and_send_pending_reminders over it
poll(u, data_handler, up, unlocked) ==
  check_and_send_pending_reminders(
    Query("reminders",
          [object_type |-> None, object_id |-> None, status |-> None,
           user_email |-> u, is_admin |-> FALSE]),
    data_handler, up, unlocked)

\* Polling.  Reminders are added and edited, the configuration changes, and
\* polls run over a fresh snapshot of get_reminders; the transport delivers
\* and the store can be written.
NextPoll ==
  \/ \E f \in ReminderForms, v \in SvcRefs, o \in ObjRefs :
       AddCall("reminders",
               [ReminderArgs(v, o, Vehicle, f[1], <<"a">>, f[2])
                  EXCEPT !.notification_time = f[3]])
  \/ \E id \in Ids("reminders", store["reminders"]),
        s \in {Pending, <<"C","o","m","p","l","e","t","e","d">>} :
       edit_reminder_form(id, s)
  \/ \E c \in {"missing", "disabled", "enabled"} : write_config(c)
  \/ \E u \in Users, dh \in BOOLEAN :
       poll(u, dh, Ids("reminders", store["reminders"]),
            Ids("reminders", store["reminders"]))
  \/ Return

SpecPoll == Init /\ [][NextPoll]_vars

\* Retries.  Due reminders and reminders with an unparsable date are added
\* and edited, a service is added, email is enabled, and polls run in which
\* the transport may fail for any reminder and the store may be locked.
NextRetry ==
  \/ \E f \in {<<DateStr(-1), PyTrue>>, <<<<"s","o","o","n">>, PyTrue>>},
        v \in SvcRefs, o \in ObjRefs :
       add_reminder(v, o, Vehicle, f[1], <<"a">>, f[2])
  \/ \E o \in ObjRefs : add_service(o, Vehicle, Name, 30, <<"a">>)
  \/ \E id \in Ids("reminders", store["reminders"]),
        s \in {Pending, <<"C","o","m","p","l","e","t","e","d">>} :
       edit_reminder_form(id, s)
  \/ write_config("enabled")
  \/ \E u \in Users, dh \in BOOLEAN,
        up \in SUBSET Ids("reminders", store["reminders"]),
        unlocked \in {{}, Ids("reminders", store["reminders"])} :
       poll(u, dh, up, unlocked)
  \/ ReturnPolled

SpecRetry == Init /\ [][NextRetry]_vars

C15_DisabledPollIsNoOp ==
  [][(Idle /\ ret'.op = "poll" /\ config # "enabled")
     => /\ ret'.args.attempted = {}
        /\ ret'.val = 0
        /\ store' = store]_vars

\* a poll under a disabled configuration returned 0 with a due reminder in
\* its snapshot
C15_Witness ==
  /\ ret.op = "poll"
  /\ config = "disabled"
  /\ ret.val = 0
  /\ \E r \in ret.rows :
       /\ r.email_notification = 1
       /\ r.status = Pending
       /\ r.email_sent = 0
       /\ r.reminder_date = DateStr(-1)

C14_FailedRetried ==
  [][(Idle /\ ret'.op = "poll")
     => LET lost == ret'.args.attempted \ ret'.args.delivered
        IN  /\ \A r \in store["reminders"] :
                 r.reminder_id \in lost => r \in store'["reminders"]
            /\ ret'.val = Cardinality(ret'.args.attempted \ lost)
            /\ \A r \in ret'.rows :
                 (r.reminder_id \in hist.failed /\ ret'.args.enabled)
                 => r.reminder_id \in ret'.args.attempted]_vars

\* a reminder whose delivery had failed in two polls was attempted a third
\* time, and failed again
C14_Witness ==
  /\ ret.op = "poll"
  /\ \E id \in hist.again :
       id \in ret.args.attempted /\ id \notin ret.args.delivered
  /\ ret.val = 0

\* C16: a poll with email enabled returns normally and attempts every due
\* reminder of its snapshot, whether or not the transport failed, a date did
\* not parse or marking failed for another reminder
C16_FailuresContained ==
  (ret.op = "poll" /\ ret.args.enabled)
  => /\ ~ret.raised
     /\ \A r \in ret.rows :
          (/\ r.email_notification = 1
           /\ r.status = Pending
           /\ r.email_sent = 0
           /\ r.reminder_date = DateStr(-1))
          => r.reminder_id \in ret.args.attempted

\* in one poll the transport failed for a reminder and another reminder was
\* delivered though marking it failed
C16_Witness ==
  /\ ret.op = "poll"
  /\ ret.args.data_handler
  /\ \E a \in ret.args.attempted \ ret.args.delivered,
        b \in ret.args.delivered \ ret.args.marked :
       CastInteger(Substr(a, 5)) < CastInteger(Substr(b, 5))

\* C17: a poll changes nothing but email_sent, to true, on reminders it has
\* just delivered; every other row, table, unit and file is as before
C17_PollWritesOnlyEmailSent ==
  [][(Idle /\ ret'.op = "poll")
     => /\ \A k \in Kinds \ {"reminders"} : store'[k] = store[k]
        /\ meter_units' = meter_units
        /\ photos' = photos
        /\ Cardinality(store'["reminders"]) = Cardinality(store["reminders"])
        /\ \A r \in store["reminders"] :
             \/ r \in store'["reminders"]
             \/ /\ r.reminder_id \in ret'.args.delivered
                /\ [r EXCEPT !.email_sent = 1] \in store'["reminders"]]_vars

\* a poll marked a reminder it delivered, beside a service
C17_Witness ==
  /\ ret.op = "poll"
  /\ ret.args.marked # {}
  /\ store["services"] # {}
  /\ \E r \in store["reminders"] :
       r.reminder_id \in ret.args.marked /\ r.email_sent = 1

\* ---------------------------------------------------------- the owner purge

\* the tables of delete_user_data, in the order of its loop
PurgeTables == <<"objects", "services", "reminders", "reports", "fault_reports">>

\* delete_user_data(user_email) is called: its connection sees the store as
\* committed, and the first DELETE will open its transaction
delete_user_data(user_email) ==
  /\ Idle
  /\ ~txn.open
  /\ txn' = [owner |-> user_email, open |-> TRUE, done |-> 0, work |-> store]
  /\ UNCHANGED <<store, meter_units, now, ret, pc, pending, result, prev, photos, config, hist>>

\* a connection in autocommit mode: every DELETE is committed as it runs
DeleteStatementAutocommit ==
  LET table == PurgeTables[txn.done + 1]
      left == {r \in txn.work[table] : ~SqlEq(r.user_email, txn.owner)}
  IN  /\ txn.open
      /\ txn.done < Len(PurgeTables)
      /\ txn' = [txn EXCEPT !.done = @ + 1, !.work[table] = left]
      /\ store' = [store EXCEPT ![table] = left]
      /\ UNCHANGED <<meter_units, now, ret, pc, pending, result, prev, photos, config, hist>>

\* the next DELETE FROM table WHERE user_email = ? of the loop, inside the
\* transaction: other connections do not see it
DeleteStatement ==
  LET table == PurgeTables[txn.done + 1]
      left == {r \in txn.work[table] : ~SqlEq(r.user_email, txn.owner)}
  IN  /\ txn.open
      /\ txn.done < Len(PurgeTables)
      /\ txn' = [txn EXCEPT !.done = @ + 1, !.work[table] = left]
      /\ UNCHANGED <<store, meter_units, now, ret, pc, pending, result, prev, photos, config, hist>>

\* the with block ends: the transaction is committed and delete_user_data
\* returns None
Commit ==
  /\ txn.open
  /\ txn.done = Len(PurgeTables)
  /\ store' = txn.work
  /\ txn' = NoTxn
  /\ ret' = Call("purge", "none", None,
                 [user_email |-> txn.owner,
                  tables |-> {k \in Kinds : txn.work[k] # store[k]}],
                 None, FALSE, 0, {})
  /\ UNCHANGED <<meter_units, now, pc, pending, result, prev, photos, config, hist>>

\* The purge.  Rows of two users and rows without an owner are added; a purge
\* runs statement by statement while other connections read the first and
\* the last table of its loop; writers wait for the transaction to end.
NextPurge ==
  \/ \E u \in Owners : ~txn.open /\ add_object(PaddedVeh, Name, <<>>, Active, u)
  \/ \E u \in Owners, o \in ObjRefs :
       ~txn.open /\ add_service(o, PaddedVeh, Name, 30, u)
  \/ \E u \in Owners, v \in SvcRefs, o \in ObjRefs :
       ~txn.open /\ add_reminder(v, o, PaddedVeh, DateStr(0), u, PyFalse)
  \/ \E u \in Owners, o \in ObjRefs :
       ~txn.open /\ add_report(o, PaddedVeh, <<"S">>, Name, u)
  \/ \E u \in Owners, o \in ObjRefs :
       ~txn.open /\ add_fault_report(o, PaddedVeh, DateStr(0), Name, u)
  \/ \E u \in Users : delete_user_data(u)
  \/ DeleteStatement
  \/ Commit
  \/ \E k \in {"objects", "fault_reports"} :
       GetCall(k, [object_type |-> None, object_id |-> None, status |-> None,
                   user_email |-> None, is_admin |-> TRUE])
  \/ Return

SpecPurge == Init /\ [][NextPurge]_vars

\* C18: delete_user_data(owner) changes the store other connections see in
\* one step only, which removes every row of that owner from all five tables
\* and leaves every other row and the meter units as they were
C18_PurgeIsOneUnit ==
  [][/\ txn'.open => (store' = store /\ meter_units' = meter_units)
     /\ (txn.open /\ ~txn'.open)
        => /\ \A k \in Kinds :
                store'[k] = {r \in store[k] : r.user_email # txn.owner}
           /\ meter_units' = meter_units]_vars

\* a purge has removed rows from two tables and returned
C18_Witness ==
  /\ ret.op = "purge"
  /\ Cardinality(ret.args.tables) >= 2
  /\ \A k \in Kinds : \A r \in store[k] : r.user_email # ret.args.user_email

\* ----------------------------------------------------------- add, then query

\* get_*() without arguments
NoFilter ==
  [object_type |-> None, object_id |-> None, status |-> None,
   user_email |-> None, is_admin |-> FALSE]

\* Add, then query.  Rows of every kind are added with a raw category, which
\* is also given as the row's name, and every table is read without a filter.
NextAddQuery ==
  \/ \E t \in AddTypes : add_object(t, t, <<>>, Active, <<"a">>)
  \/ \E t \in AddTypes, o \in ObjRefs : add_service(o, t, t, 30, <<"a">>)
  \/ \E t \in AddTypes, v \in SvcRefs, o \in ObjRefs :
       AddCall("reminders",
               [ReminderArgs(v, o, t, DateStr(0), <<"a">>, PyFalse)
                  EXCEPT !.notes = t])
  \/ \E t \in AddTypes, o \in ObjRefs : add_report(o, t, <<"S">>, t, <<"a">>)
  \/ \E t \in AddTypes, o \in ObjRefs :
       add_fault_report(o, t, DateStr(0), t, <<"a">>)
  \/ \E k \in Kinds : GetCall(k, NoFilter)
  \/ ReturnNoted

SpecAddQuery == Init /\ [][NextAddQuery]_vars

\* C19: when an add on an empty store is followed at once by the unfiltered
\* query of its kind, the query returns exactly one row; its id is the one
\* the add returned, made of three capital letters (for an equipment object
\* the first three of its category), a dash and the number 1 padded with
\* zeros to the kind's width; its category is the input category normalized
C19_AddThenQuery ==
  (/\ ret.op = "get"
   /\ ret.args = NoFilter
   /\ prev.op = "add"
   /\ prev.kind = ret.kind
   /\ TotalRows(store) = 1)
  => \E r \in ret.rows :
       /\ ret.rows = {r}
       /\ r[PK[ret.kind]] = prev.id
       /\ prev.id = (IF ret.kind = "objects"
                     THEN Upper(SubSeq(r.object_type, 1, 3))
                     ELSE ID_PREFIX[ret.kind])
                    \o <<"-">>
                    \o (IF ret.kind = "objects" THEN <<"0","0","0","1">>
                        ELSE <<"0","0","0","0","1">>)
       /\ \A i \in 1..3 :
            \E j \in DOMAIN UpperLetters : prev.id[i] = UpperLetters[j]
       /\ \/ r[NameField[ret.kind]] = PaddedVeh /\ r.object_type = Vehicle
          \/ r[NameField[ret.kind]] = Boat /\ r.object_type = Boat
          \/ /\ r[NameField[ret.kind]] = PaddedBoat
             /\ r.object_type = <<"b","o","a","t">>

\* the only fault report, added with the category " Veh\t", has been read
C19_Witness ==
  /\ ret.op = "get"
  /\ ret.args = NoFilter
  /\ ret.kind = "fault_reports"
  /\ prev.op = "add"
  /\ prev.kind = "fault_reports"
  /\ TotalRows(store) = 1
  /\ \E r \in ret.rows : r.description = PaddedVeh /\ r.object_type = Vehicle

\* ------------------------------------------------- reminders and their service

\* an add form that always passes the first of OBJECT_TYPES
AddReminderFormFirstType(service_id, reminder_date, email_notification) ==
  \E s \in Query("services", NoFilter) :
    /\ s.service_id = service_id
    /\ add_reminder(service_id, s.object_id, Vehicle, reminder_date, None,
                    email_notification)

\* the add form of the reminders page: the service is picked from
\* get_services(), its object_id and object_type are passed on, and no
\* user_email is
add_reminder_form(service_id, reminder_date, email_notification) ==
  \E s \in Query("services", NoFilter) :
    /\ s.service_id = service_id
    /\ add_reminder(service_id, s.object_id, s.object_type, reminder_date,
                    None, email_notification)

\* Reminders of services.  Services are added, their category is updated,
\* and they are deleted; reminders are added through the form and by callers
\* that pass a category of their own.
NextInherit ==
  \/ \E t \in SpecTypes, o \in ObjRefs : add_service(o, t, Name, 30, <<"a">>)
  \/ \E id \in CallIds("services"), kw \in TypeKwargs : update_service(id, kw)
  \/ \E t \in SpecTypes, v \in SvcRefs, o \in ObjRefs :
       add_reminder(v, o, t, DateStr(0), <<"a">>, PyFalse)
  \/ \E id \in Ids("services", store["services"]) :
       add_reminder_form(id, DateStr(0), PyTrue)
  \/ \E id \in CallIds("services") : delete_service(id)
  \/ Return

SpecInherit == Init /\ [][NextInherit]_vars

\* C20: the reminder that add_reminder(service_id=s, ...) adds has the stored
\* object_type of service s
C20_ReminderHasServiceCategory ==
  [][(Idle /\ ret'.op = "add" /\ ret'.kind = "reminders" /\ ~ret'.raised)
     => \A r \in store'["reminders"] \ store["reminders"] :
          \A s \in store["services"] :
            s.service_id = ret'.args.service_id
            => r.object_type = s.object_type]_vars

\* C20, amended: the reminder that add_reminder adds has the object_type
\* argument, normalized; when the add form made the call (it passes no
\* user_email), that is the stored object_type of the service picked
C20_ReminderHasGivenCategory ==
  [][(Idle /\ ret'.op = "add" /\ ret'.kind = "reminders" /\ ~ret'.raised)
     => \E r \in store'["reminders"] :
          /\ store'["reminders"] = store["reminders"] \cup {r}
          /\ r.reminder_id = ret'.val
          /\ \/ /\ ret'.args.object_type \in {PaddedVeh, Vehicle}
                /\ r.object_type = Vehicle
             \/ /\ ret'.args.object_type \in {PaddedBoat, <<"b","o","a","t">>}
                /\ r.object_type = <<"b","o","a","t">>
          /\ ret'.args.user_email = None
             => \E s \in store["services"] :
                  /\ s.service_id = r.service_id
                  /\ s.object_type = r.object_type]_vars

\* the add form has added a reminder for a service whose category is not a
\* recognized one
C20_Witness ==
  /\ ret.op = "add"
  /\ ret.kind = "reminders"
  /\ ret.args.user_email = None
  /\ \E r \in store["reminders"], s \in store["services"] :
       /\ r.reminder_id = ret.val
       /\ s.service_id = r.service_id
       /\ s.object_type = <<"b","o","a","t">>
       /\ r.object_type = <<"b","o","a","t">>

\* ------------------------------------------------------ the result of update

\* what the update calls of this specification pass: an unknown field alone,
\* a name with an unknown field, an id, and for an equipment object no name
ResultKwargs(kind) ==
  NameKwargs(kind) \cup IdKwargs(kind)
  \cup (IF kind = "objects" THEN {[name |-> None]} ELSE {})

\* Results of update.  Rows of every kind are added and updated with fields
\* the schema has and has not, with ids, and with a missing name.
NextResult ==
  \/ add_object(PaddedVeh, Name, <<>>, Active, <<"a">>)
  \/ \E o \in ObjRefs : add_service(o, PaddedVeh, Name, 30, <<"a">>)
  \/ \E v \in SvcRefs, o \in ObjRefs :
       add_reminder(v, o, PaddedVeh, DateStr(0), <<"a">>, PyFalse)
  \/ \E o \in ObjRefs : add_report(o, PaddedVeh, <<"S">>, Name, <<"a">>)
  \/ \E o \in ObjRefs : add_fault_report(o, PaddedVeh, DateStr(0), Name, <<"a">>)
  \/ \E k \in Kinds :
       \E id \in CallIds(k), kw \in ResultKwargs(k) : UpdateCall(k, id, kw)
  \/ Return

SpecResult == Init /\ [][NextResult]_vars

C22_EveryRowHasOwner ==
  \A k \in Kinds : \A r \in store[k] : r.user_email # None

\* C23: delete_object(id) removes the equipment object with that id and
\* nothing else: the services, reminders, reports and fault reports, those
\* that refer to the object among them, are as before
C23_DeleteObjectNoCascade ==
  [][(Idle /\ ret'.op = "delete" /\ ret'.kind = "objects")
     => /\ store'["objects"]
             = {r \in store["objects"] : r.object_id # ret'.id}
        /\ \A k \in Kinds \ {"objects"} : store'[k] = store[k]]_vars

\* an equipment object has been deleted and a row that refers to it is left
C23_Witness ==
  /\ ret.op = "delete"
  /\ ret.kind = "objects"
  /\ ret.rowcount = 1
  /\ \E k \in Kinds \ {"objects"} : \E r \in store[k] : r.object_id = ret.id

\* the poll of the page loaded by user u (the page passes its handler), with
\* the transport up for the reminders of `up`
PagePoll(u, unlocked) ==
  \E up \in SUBSET Ids("reminders", store["reminders"]) :
    poll(u, TRUE, up, unlocked)

\* Recurring polls.  Email is enabled, due reminders are added and edited,
\* and the pages of the users are loaded: the transport may fail for any
\* reminder, and the store may be locked.
NextLive ==
  \/ \E v \in SvcRefs, o \in ObjRefs :
       add_reminder(v, o, Vehicle, DateStr(-1), <<"a">>, PyTrue)
  \/ \E id \in Ids("reminders", store["reminders"]),
        s \in {Pending, <<"C","o","m","p","l","e","t","e","d">>} :
       edit_reminder_form(id, s)
  \/ write_config("enabled")
  \/ \E u \in Users,
        unlocked \in {{}, Ids("reminders", store["reminders"])} :
       PagePoll(u, unlocked)
  \/ ReturnPolled

\* The behaviours of NextLive in which a call returns, and in which a user
\* whose page keeps being loaded finds the store writable again and again:
\* every `with conn` block commits or rolls back, so no lock on the store is
\* held for ever.
SpecLive ==
  /\ Init
  /\ [][NextLive]_vars
  /\ WF_vars(ReturnPolled)
  /\ \A u \in Users :
       \/ <>[][~(PagePoll(u, {})
                 \/ PagePoll(u, Ids("reminders", store["reminders"])))]_vars
       \/ []<><<PagePoll(u, Ids("reminders", store["reminders"]))>>_vars

\* the ids of the first two reminders added
ReminderIds ==
  {FormatId(IdPrefix("reminders", Vehicle), n, IdWidth("reminders")) :
     n \in {1, 2}}

\* the reminder is email-enabled and Pending and its date has come
KeptDue(id) ==
  \E r \in store["reminders"] :
    /\ r.reminder_id = id
    /\ r.email_notification # 0
    /\ r.status = Pending
    /\ \E d \in ParseDate(r.reminder_date) : now >= d

EmailSent(id) ==
  \E r \in store["reminders"] : r.reminder_id = id /\ r.email_sent = 1

\* a poll of the page (it runs when email is enabled, and passes the
\* handler) whose snapshot holds the reminder
PollReads(id) ==
  /\ Idle
  /\ ret'.op = "poll"
  /\ ret'.args.enabled
  /\ ret'.args.data_handler
  /\ \E r \in ret'.rows : r.reminder_id = id

\* C24: if the polls that read a reminder keep recurring, from some point on
\* no delivery of it fails, and it stays email-enabled, Pending and due,
\* then its email_sent becomes true (again and again, when edits reset it)
C24_EventuallySent ==
  \A id \in ReminderIds :
    ( /\ []<><<PollReads(id)>>_vars
      /\ <>[][PollReads(id)
              => id \notin ret'.args.attempted \ ret'.args.delivered]_vars
      /\ <>[]KeptDue(id) )
    => []<>EmailSent(id)

\* a reminder whose delivery failed in an earlier poll is marked sent by a
\* later one
C24_Witness ==
  /\ ret.op = "poll"
  /\ \E id \in ret.args.marked : id \in hist.failed

\* ------------------------------------------------- overlapping update calls

\* update_reminder(reminder_id, **kwargs) of client c, up to the with block:
\* the SET list is built from the keyword arguments alone; with no valid
\* key the call returns False there
UpdateBegin(c, reminder_id, kwargs) ==
  LET sets == SetList("reminders", kwargs, now)
      inside == {d \in Clients \ {c} : pc[d] # "idle"}
  IN  /\ Idle
      /\ pc[c] = "idle"
      /\ IF DOMAIN sets = {}
         THEN /\ result' = [result EXCEPT ![c] =
                              [kind |-> "reminders", object_type |-> None,
                               id |-> reminder_id, raised |-> FALSE,
                               overlapped |-> FALSE, sets |-> sets,
                               val |-> PyFalse]]
              /\ UNCHANGED <<pc, pending>>
         ELSE /\ pc' = [pc EXCEPT ![c] = "built"]
              /\ pending' =
                   [d \in Clients |->
                      IF d = c
                      THEN [kind |-> "reminders", a |-> sets,
                            object_type |-> None, id |-> reminder_id,
                            t |-> now, overlapped |-> inside # {}]
                      ELSE IF d \in inside
                      THEN [pending[d] EXCEPT !.overlapped = TRUE]
                      ELSE pending[d]]
              /\ result' = [result EXCEPT ![c] = NoResult]
      /\ UNCHANGED <<store, meter_units, now, ret, prev, beside>>

\* a connection that writes while another connection's transaction is open
UpdateExecuteNoLock(c) ==
  LET p == pending[c]
      matched == {r \in store["reminders"] : SqlEq(r.reminder_id, p.id)}
  IN  /\ pc[c] = "built"
      /\ txn' = [owner |-> None, open |-> TRUE, done |-> Cardinality(matched),
                 work |-> [store EXCEPT !["reminders"] =
                             (@ \ matched)
                             \cup {Assign(r, p.a) : r \in matched}]]
      /\ pc' = [pc EXCEPT ![c] = "executed"]
      /\ UNCHANGED <<store, meter_units, now, ret, pending, result, prev, photos, config, hist>>

\* conn.execute("UPDATE reminders SET ... WHERE reminder_id = ?"): the
\* statement opens the connection's transaction and takes the write lock of
\* the store, which one connection holds at a time; it writes every column
\* of the SET list to the matching row, unseen by others until the commit
UpdateExecute(c) ==
  LET p == pending[c]
      matched == {r \in store["reminders"] : SqlEq(r.reminder_id, p.id)}
  IN  /\ pc[c] = "built"
      /\ ~txn.open
      /\ txn' = [owner |-> None, open |-> TRUE, done |-> Cardinality(matched),
                 work |-> [store EXCEPT !["reminders"] =
                             (@ \ matched)
                             \cup {Assign(r, p.a) : r \in matched}]]
      /\ pc' = [pc EXCEPT ![c] = "executed"]
      /\ UNCHANGED <<store, meter_units, now, ret, pending, result, prev, photos, config, hist>>

\* the write lock is still held when the connection's timeout of 30 s ends:
\* sqlite3.OperationalError leaves update_reminder and nothing is written
UpdateLocked(c) ==
  /\ pc[c] = "built"
  /\ txn.open
  /\ result' = [result EXCEPT ![c] =
                  [kind |-> "reminders", object_type |-> None,
                   id |-> pending[c].id, raised |-> TRUE,
                   overlapped |-> pending[c].overlapped,
                   sets |-> pending[c].a, val |-> None]]
  /\ pc' = [pc EXCEPT ![c] = "idle"]
  /\ pending' = [pending EXCEPT ![c] = NoPending]
  /\ UNCHANGED <<store, meter_units, now, ret, prev, beside>>

\* the with block ends: the transaction is committed, the lock released, and
\* update_reminder returns cur.rowcount > 0
UpdateCommit(c) ==
  /\ pc[c] = "executed"
  /\ store' = txn.work
  /\ txn' = NoTxn
  /\ result' = [result EXCEPT ![c] =
                  [kind |-> "reminders", object_type |-> None,
                   id |-> pending[c].id, raised |-> FALSE,
                   overlapped |-> pending[c].overlapped,
                   sets |-> pending[c].a,
                   val |-> IF txn.done > 0 THEN PyTrue ELSE PyFalse]]
  /\ pc' = [pc EXCEPT ![c] = "idle"]
  /\ pending' = [pending EXCEPT ![c] = NoPending]
  /\ UNCHANGED <<meter_units, now, ret, prev, photos, config, hist>>

\* Overlapping updates.  Reminders are added, and two clients update them,
\* each update_reminder in its steps: the edit of status and notes, a note
\* with the sent flag, and a call with no valid key (and an id of no
\* reminder); other writers wait for the lock.
NextOverlap ==
  \/ \E v \in SvcRefs, o \in ObjRefs :
       ~txn.open /\ add_reminder(v, o, Vehicle, DateStr(0), <<"a">>, PyTrue)
  \/ \E c \in Clients :
       \E id \in CallIds("reminders"),
          kw \in {[status |-> <<"C","o","m","p","l","e","t","e","d">>,
                   notes |-> <<"x">>],
                  [notes |-> <<"y">>, email_sent |-> 1]} :
         UpdateBegin(c, id, kw)
  \/ \E c \in Clients, id \in SvcRefs :
       UpdateBegin(c, id, [colour |-> <<"x">>])
  \/ \E c \in Clients : UpdateExecute(c)
  \/ \E c \in Clients : UpdateLocked(c)
  \/ \E c \in Clients : UpdateCommit(c)
  \/ Return

SpecOverlap == Init /\ [][NextOverlap]_vars

\* C25: an update_reminder call reaches the store in one step, which writes
\* every column of its SET list to its row and nothing else (no step shows
\* part of it); when it overlapped with another client's update of the same
\* row, the row then has, in each column that only one of the two set, that
\* call's value, and in each column both set, the value of one of them
C25_OverlappingUpdatesAtomic ==
  [][/\ \A c \in Clients :
          (pc[c] = "executed" /\ pc'[c] = "idle")
          => /\ store'["reminders"] =
                  {IF SqlEq(r.reminder_id, pending[c].id)
                   THEN Assign(r, pending[c].a) ELSE r
                     : r \in store["reminders"]}
             /\ \A d \in Clients \ {c} :
                  ( /\ result[d].kind = "reminders"
                    /\ ~result[d].raised
                    /\ result[d].overlapped
                    /\ pending[c].overlapped
                    /\ result[d].id = pending[c].id )
                  => \A r \in store'["reminders"] :
                       SqlEq(r.reminder_id, pending[c].id)
                       => /\ \A f \in DOMAIN pending[c].a \ DOMAIN result[d].sets :
                               r[f] = pending[c].a[f]
                          /\ \A f \in DOMAIN result[d].sets \ DOMAIN pending[c].a :
                               r[f] = result[d].sets[f]
                          /\ \A f \in DOMAIN pending[c].a \cap DOMAIN result[d].sets :
                               r[f] \in {pending[c].a[f], result[d].sets[f]}
     /\ (\A c \in Clients : ~(pc[c] = "executed" /\ pc'[c] = "idle"))
        => \A r \in store["reminders"] : r \in store'["reminders"]]_vars

\* two overlapping updates of one reminder have both been written, each with
\* a column of its own and a column the other set too
C25_Witness ==
  \E c \in Clients : \E d \in Clients \ {c} :
    /\ pc[c] = "idle" /\ pc[d] = "idle"
    /\ result[c].kind = "reminders" /\ result[d].kind = "reminders"
    /\ ~result[c].raised /\ ~result[d].raised
    /\ result[c].overlapped /\ result[d].overlapped
    /\ result[c].id = result[d].id
    /\ \E r \in store["reminders"] : r.reminder_id = result[c].id
    /\ DOMAIN result[c].sets \ DOMAIN result[d].sets # {}
    /\ DOMAIN result[d].sets \ DOMAIN result[c].sets # {}
    /\ \E f \in DOMAIN result[c].sets \cap DOMAIN result[d].sets :
         result[c].sets[f] # result[d].sets[f]

\* C26: in a history of calls made one after the other, no add_object
\* raises: the id it computes is the id of no row present
C26_AddObjectNeverRaises ==
  (ret.op = "add" /\ ret.kind = "objects") => ~ret.raised

\* C27: a get_* call with is_admin false returns no row whose owner differs
\* from the owner passed, also when the owner passed is None
C27_NonAdminSeesOwnRowsOnly ==
  (ret.op = "get" /\ ~ret.args.is_admin) =>
    \A r \in ret.rows : r.user_email = ret.args.user_email

\* ------------------------------------------------------- overlapping polls

\* the page of user u is loaded for client c: with email enabled, the page
\* reads its snapshot handler.get_reminders(user_email, is_admin)
PollSnapshot(c, u) ==
  LET inside == {d \in Clients \ {c} : pc[d] # "idle"}
  IN  /\ pc[c] = "idle"
      /\ is_enabled
      /\ pc' = [pc EXCEPT ![c] = "read"]
      /\ pending' =
           [d \in Clients |->
              IF d = c
              THEN [kind |-> "reminders",
                    a |-> Query("reminders",
                                [object_type |-> None, object_id |-> None,
                                 status |-> None, user_email |-> u,
                                 is_admin |-> FALSE]),
                    object_type |-> None, id |-> None, t |-> now,
                    overlapped |-> inside # {}]
              ELSE IF d \in inside
              THEN [pending[d] EXCEPT !.overlapped = TRUE]
              ELSE pending[d]]
      /\ result' = [result EXCEPT ![c] = NoResult]
      /\ UNCHANGED <<store, meter_units, now, ret, prev, beside>>

\* check_and_send_pending_reminders(reminders_df, users_config, handler) on
\* the snapshot of client c: the loop decides from the rows of the snapshot,
\* sends, and marks in the store what it delivered; hist.mailed collects the
\* reminders delivered so far
PollSend(c, up) ==
  LET reminders_df == IF pc[c] = "read" THEN pending[c].a ELSE {}
      unlocked == Ids("reminders", reminders_df)
      attempted == Attempted(reminders_df, up, unlocked)
      delivered == attempted \cap up
      marked == Marked(attempted, delivered, TRUE, unlocked)
      sets == SetList("reminders", SentKwargs, now)
  IN  /\ pc[c] = "read"
      /\ store' = [store EXCEPT !["reminders"] =
                     {IF \E id \in marked : SqlEq(r.reminder_id, id)
                      THEN Assign(r, sets) ELSE r : r \in @}]
      /\ result' = [result EXCEPT ![c] =
                      [kind |-> "reminders", object_type |-> None,
                       id |-> None, raised |-> FALSE,
                       overlapped |-> pending[c].overlapped,
                       sets |-> delivered, val |-> Cardinality(delivered)]]
      /\ hist' = [hist EXCEPT !.mailed = @ \cup delivered,
                              !.marked = @ \cup marked]
      /\ pc' = [pc EXCEPT ![c] = "idle"]
      /\ pending' = [pending EXCEPT ![c] = NoPending]
      /\ UNCHANGED <<meter_units, now, ret, prev, photos, config, txn>>

\* Overlapping polls.  Email is enabled, due reminders are added, and the
\* pages of two clients are loaded; no update resets email_sent, and the
\* store takes every write.
NextTwoPolls ==
  \/ write_config("enabled")
  \/ \E v \in SvcRefs, o \in ObjRefs :
       add_reminder(v, o, Vehicle, DateStr(-1), <<"a">>, PyTrue)
  \/ \E c \in Clients, u \in Users : PollSnapshot(c, u)
  \/ \E c \in Clients :
       \E up \in SUBSET Ids("reminders", store["reminders"]) : PollSend(c, up)
  \/ Return

SpecTwoPolls == Init /\ [][NextTwoPolls]_vars

\* C28: with no update that resets email_sent, no poll delivers a reminder
\* that a poll has delivered before
C28_DeliveredAtMostOnce ==
  [][\A c \in Clients :
       (pc[c] = "read" /\ pc'[c] = "idle")
       => result'[c].sets \cap hist.mailed = {}]_vars

\* C29: normalize_object_type returns a value it leaves as it is: for an
\* alias in any case, a canonical value, an unrecognized string, each with
\* and without padding, and for None, normalizing the result again gives
\* the result
C29_NormalizeIdempotent ==
  ret.op = "normalize" => normalize_object_type(ret.val) = ret.val

\* a padded string that is no alias has been normalized to its trimmed form
C29_Witness ==
  /\ ret.op = "normalize"
  /\ ret.id # None
  /\ ret.val # ret.id
  /\ Lower(ret.val) \notin DOMAIN OBJECT_TYPE_CANON
  /\ ret.val # <<>>

\* --------------------------------------------- meter units, initialization

\* add_meter_unit(unit): the trimmed unit is inserted; False for an empty
\* unit and for one that is present (sqlite3.IntegrityError is caught)
add_meter_unit(unit) ==
  LET u == Strip(Str(unit))
      ok == u # <<>> /\ u \notin meter_units
  IN  /\ Idle
      /\ meter_units' = IF ok THEN meter_units \cup {u} ELSE meter_units
      /\ ret' = Call("add_unit", "meter_units", unit, <<>>,
                     IF ok THEN PyTrue ELSE PyFalse, FALSE, 0, {})
      /\ UNCHANGED <<store, now, aside>>

\* delete_meter_unit(unit): DELETE FROM meter_units WHERE unit = ?; returns
\* cur.rowcount > 0
delete_meter_unit(unit) ==
  /\ Idle
  /\ meter_units' = meter_units \ {unit}
  /\ ret' = Call("delete_unit", "meter_units", unit, <<>>,
                 IF unit \in meter_units THEN PyTrue ELSE PyFalse, FALSE,
                 IF unit \in meter_units THEN 1 ELSE 0, {})
  /\ UNCHANGED <<store, now, aside>>

\* DataHandler(): _initialize_db runs the CREATE TABLE IF NOT EXISTS script,
\* which leaves the tables of an initialized database alone, and inserts km
\* and kWh when SELECT 1 FROM meter_units finds no row
initialize_db ==
  /\ Idle
  /\ meter_units' = IF meter_units = {} THEN {Km, KWh} ELSE meter_units
  /\ ret' = Call("init", "none", None, <<>>, None, FALSE, 0, {})
  /\ UNCHANGED <<store, now, aside>>

\* Meter units.  Units and equipment objects are added, units are deleted,
\* and a page load constructs a new DataHandler on the database.
NextUnits ==
  \/ \E unit \in {Km, KWh, <<"h">>, <<" ","h">>, <<" ">>} :
       add_meter_unit(unit)
  \/ \E unit \in {Km, KWh, <<"h">>} : delete_meter_unit(unit)
  \/ initialize_db
  \/ add_object(PaddedVeh, Name, <<>>, Active, <<"a">>)
  \/ Return

SpecUnits == Init /\ [][NextUnits]_vars

\* C30: constructing a DataHandler on the initialized database changes no
\* row of any table; a meter unit that was deleted stays absent
C30_ReinitializeChangesNothing ==
  [][(Idle /\ ret'.op = "init")
     => (store' = store /\ meter_units' = meter_units)]_vars

=============================================================================
